---- MODULE Spec2Model ----
(***************************************************************************)
(* A model of aminatorplugins/provisioner/puppet.py: the orchestration of  *)
(* PuppetProvisionerPlugin.provision(), step by step, over an abstract     *)
(* build-host file system, process environment and configuration bag.     *)
(*                                                                         *)
(* Representation.  A Python string that is a path is a sequence of path   *)
(* components, an absolute path starting with the component "/".  A Python *)
(* string that is parsed character by character (puppet_env_vars) is a     *)
(* sequence of one-character strings.  The empty string is <<>>.  A       *)
(* command is the sequence of the pieces it is put together from, each a   *)
(* string.                                                                 *)
(***************************************************************************)
EXTENDS Integers, Sequences, FiniteSets, TLC

VARIABLES
    pc,                 \* the statement of provision() that runs next
    puppet_run_mode,    \* self._puppet_run_mode
    puppet_apply_file,  \* self._puppet_apply_file
    config,             \* self._config.plugins[self.full_name]: the options that are set
    attributes,         \* self._config.context.package.attributes
    environ,            \* os.environ
    fs,                 \* the build host's file system: absolute path -> entry
    in_chroot,          \* TRUE between Chroot.__enter__ and Chroot.__exit__
    events,             \* what provision() has done so far, in order
    result,             \* the CommandResult of the agent command, once it has run
    outcome,            \* how provision() leaves: "none", "True", "False", "raised"
    input               \* what provision() was called with (never changes)

vars == <<pc, puppet_run_mode, puppet_apply_file, config, attributes, environ,
          fs, in_chroot, events, result, outcome, input>>

-----------------------------------------------------------------------------
(* Bounds *)

\* The longest well-formed puppet_env_vars spec of Init, in key=value pairs.
MaxPairs == 2

-----------------------------------------------------------------------------
(* Paths and the file system *)

Mountpoint == <<"/", "mnt">>      \* self._distro._mountpoint
Cwd == <<"/", "root">>            \* the working directory of the build process
Hostname == <<"buildhost">>       \* socket.gethostname()

Last(s) == s[Len(s)]

IsPrefix(p, q) == Len(p) <= Len(q) /\ SubSeq(q, 1, Len(p)) = p

IsAbs(p) == Len(p) > 0 /\ p[1] = "/"

\* a + b on two path strings
StrCat(a, b) ==
    IF b = <<>> THEN a
    ELSE IF a = <<>> THEN b
    ELSE IF IsAbs(b) THEN a \o Tail(b)
    ELSE SubSeq(a, 1, Len(a) - 1) \o <<Last(a) \o b[1]>> \o Tail(b)

\* name + '.pem'
AddSuffix(p, suffix) ==
    IF p = <<>> THEN <<suffix>>
    ELSE SubSeq(p, 1, Len(p) - 1) \o <<Last(p) \o suffix>>

\* os.path.join(a, b)
PathJoin(a, b) ==
    IF IsAbs(b) THEN b
    ELSE IF a = <<>> THEN b
    ELSE a \o b

\* os.path.basename(p)
Basename(p) == IF p = <<>> THEN <<>> ELSE <<Last(p)>>

\* The absolute build-host path that the path string p names: inside the
\* chroot the root is the mount point and the working directory is "/".
Resolve(p, chrooted) ==
    IF chrooted
    THEN (IF IsAbs(p) THEN Mountpoint \o Tail(p) ELSE Mountpoint \o p)
    ELSE (IF IsAbs(p) THEN p ELSE Cwd \o p)

Dir == [type |-> "dir", gz |-> FALSE, names |-> {}]
File == [type |-> "file", gz |-> FALSE, names |-> {}]
TarGz(names) == [type |-> "tar", gz |-> TRUE, names |-> names]
Tar(names) == [type |-> "tar", gz |-> FALSE, names |-> names]

\* os.access(p, os.F_OK)
Access(f, p, chrooted) == p # <<>> /\ Resolve(p, chrooted) \in DOMAIN f

Prefixes(p) == {SubSeq(p, 1, k) : k \in 1..Len(p)}

\* mkdir_p(p)
MkdirP(f, p, chrooted) ==
    LET abs == Resolve(p, chrooted)
    IN  [q \in DOMAIN f \cup Prefixes(abs) |-> IF q \in DOMAIN f THEN f[q] ELSE Dir]

\* Whether shutil.copy(src, dst) and shutil.copy2(src, dst) raise: the source
\* must be an existing file.
CopyRaises(f, src, chrooted) ==
    \/ ~Access(f, src, chrooted)
    \/ f[Resolve(src, chrooted)].type = "dir"

\* Mutant: the source is moved, not copied
MoveFile(f, src, dst, chrooted) ==
    LET s == Resolve(src, chrooted)
        d == Resolve(dst, chrooted)
        target == IF d \in DOMAIN f /\ f[d].type = "dir" THEN d \o Basename(src) ELSE d
    IN  [q \in (DOMAIN f \cup {target}) \ {s} |-> IF q = target THEN f[s] ELSE f[q]]

\* shutil.copy(src, dst), shutil.copy2(src, dst): into dst when dst is a
\* directory, onto dst otherwise.
CopyFile(f, src, dst, chrooted) ==
    LET s == Resolve(src, chrooted)
        d == Resolve(dst, chrooted)
        target == IF d \in DOMAIN f /\ f[d].type = "dir" THEN d \o Basename(src) ELSE d
    IN  [q \in DOMAIN f \cup {target} |-> IF q = target THEN f[s] ELSE f[q]]

\* tarfile.is_tarfile(p) raises IOError when p cannot be opened; only a
\* TarError is turned into False.
IsTarfileRaises(f, p, chrooted) ==
    \/ ~Access(f, p, chrooted)
    \/ f[Resolve(p, chrooted)].type = "dir"

\* tarfile.is_tarfile(p), for a p that can be opened
IsTarfile(f, p, chrooted) == f[Resolve(p, chrooted)].type = "tar"

\* tarfile.open(p, 'r:gz') raises ReadError for an archive that is not gzipped
TarOpenGzRaises(f, p, chrooted) == ~f[Resolve(p, chrooted)].gz

\* tar.getnames()
GetNames(f, p, chrooted) == f[Resolve(p, chrooted)].names

\* tar.extractall(dest)
ExtractAll(f, p, dest, chrooted) ==
    LET names == GetNames(f, p, chrooted)
        d == Resolve(dest, chrooted)
        new == UNION {{d \o m : m \in Prefixes(n)} : n \in names}
        entry(q) == IF \E m \in new : m # q /\ IsPrefix(q, m) THEN Dir ELSE File
    IN  [q \in DOMAIN f \cup new |-> IF q \in new THEN entry(q) ELSE f[q]]

\* Whether shutil.rmtree(p) raises: p must name an existing directory.
RmtreeRaises(f, p, chrooted) ==
    \/ ~Access(f, p, chrooted)
    \/ f[Resolve(p, chrooted)].type # "dir"

\* shutil.rmtree(p)
Rmtree(f, p, chrooted) ==
    LET abs == Resolve(p, chrooted)
    IN  [q \in {r \in DOMAIN f : ~IsPrefix(abs, r)} |-> f[q]]

-----------------------------------------------------------------------------
(* The configuration bag *)

\* config.get(name) is true: the option is set and is not the empty string
ConfigTruthy(cfg, name) == name \in DOMAIN cfg /\ cfg[name] # <<>>

\* What _get_config_value(name, default) returns
get_config_value(cfg, name, default) ==
    IF ConfigTruthy(cfg, name) THEN cfg[name] ELSE default

\* Mutant: the default is written whatever the option holds
get_config_value_setattr_always(cfg, name, default) ==
    [n \in DOMAIN cfg \cup {name} |-> IF n = name THEN default ELSE cfg[n]]

\* The configuration bag after _get_config_value(name, default): an option
\* that is unset or empty is set to the default.
get_config_value_setattr(cfg, name, default) ==
    IF ConfigTruthy(cfg, name) THEN cfg
    ELSE [n \in DOMAIN cfg \cup {name} |-> IF n = name THEN default ELSE cfg[n]]

-----------------------------------------------------------------------------
(* puppet_env_vars *)

IsSpace(c) == c = " "

\* re.compile('\S=\S').search(s)
SearchKeyValue(s) ==
    \E i \in 1..(Len(s) - 2) : ~IsSpace(s[i]) /\ s[i + 1] = "=" /\ ~IsSpace(s[i + 2])

\* re.compile("\s?;\s?").split(s), from position i on, cur being the piece
\* collected since the last match.  The leftmost match starts at a space that
\* a ';' follows or at a ';', and takes one space after the ';' if there is one.
RECURSIVE SplitSemicolonFrom(_, _, _)
SplitSemicolonFrom(s, i, cur) ==
    IF i > Len(s) THEN <<cur>>
    ELSE LET at == IF IsSpace(s[i]) /\ i < Len(s) /\ s[i + 1] = ";" THEN i + 1
                   ELSE IF s[i] = ";" THEN i
                   ELSE 0
             after == IF at > 0 /\ at < Len(s) /\ IsSpace(s[at + 1]) THEN at + 2 ELSE at + 1
         IN  IF at > 0
             THEN <<cur>> \o SplitSemicolonFrom(s, after, <<>>)
             ELSE SplitSemicolonFrom(s, i + 1, Append(cur, s[i]))

\* Mutant: a split at every ';' that leaves the whitespace around it in place
RECURSIVE SplitAtSemicolonFrom(_, _, _)
SplitAtSemicolonFrom(s, i, cur) ==
    IF i > Len(s) THEN <<cur>>
    ELSE IF s[i] = ";"
         THEN <<cur>> \o SplitAtSemicolonFrom(s, i + 1, <<>>)
         ELSE SplitAtSemicolonFrom(s, i + 1, Append(cur, s[i]))

SplitAtSemicolon(s) == SplitAtSemicolonFrom(s, 1, <<>>)

SplitSemicolon(s) == SplitSemicolonFrom(s, 1, <<>>)

\* x.split('='): at every '='
RECURSIVE SplitEqualsFrom(_, _, _)
SplitEqualsFrom(x, i, cur) ==
    IF i > Len(x) THEN <<cur>>
    ELSE IF x[i] = "="
         THEN <<cur>> \o SplitEqualsFrom(x, i + 1, <<>>)
         ELSE SplitEqualsFrom(x, i + 1, Append(cur, x[i]))

SplitEquals(x) == SplitEqualsFrom(x, 1, <<>>)

\* [x.split('=') for x in re.compile("\s?;\s?").split(s)]
EnvVarItems(s) ==
    LET segments == SplitSemicolon(s)
    IN  [i \in DOMAIN segments |-> SplitEquals(segments[i])]

\* dict(items) raises ValueError unless every item has exactly two elements
DictRaises(items) == \E i \in DOMAIN items : Len(items[i]) # 2

\* dict(items): a later item replaces an earlier one with the same key
DictOf(items) ==
    LET keys == {items[i][1] : i \in DOMAIN items}
        last(k) == CHOOSE i \in DOMAIN items :
                       /\ items[i][1] = k
                       /\ \A j \in DOMAIN items : items[j][1] = k => j <= i
    IN  [k \in keys |-> items[last(k)][2]]

\* os.environ.update(d)
EnvironUpdate(env, d) ==
    [k \in DOMAIN env \cup DOMAIN d |-> IF k \in DOMAIN d THEN d[k] ELSE env[k]]

-----------------------------------------------------------------------------
(* Commands *)

\* template.format(*args): the pieces of the formatted string, in order.  A
\* piece "{i}" of the template is replaced by the i-th argument (counted
\* from 0); an argument no piece names is dropped.
RECURSIVE Format(_, _)
Format(template, args) ==
    IF template = <<>> THEN <<>>
    ELSE LET piece == Head(template)
             here == IF piece = "{0}" THEN args[1]
                     ELSE IF piece = "{1}" THEN args[2]
                     ELSE IF piece = "{2}" THEN args[3]
                     ELSE <<piece>>
         IN  <<here>> \o Format(Tail(template), args)

puppet_agent(puppet_args, certname, puppet_master) ==
    Format(<<"puppet agent --detailed-exitcodes --no-daemonize --logdest console --onetime --certname",
             "{0}", "--server", "{1}">>,
           <<certname, puppet_master, puppet_args>>)

\* Mutant: the apply file is left out of the command
puppet_apply_without_file(puppet_args, apply_file) ==
    Format(<<"puppet apply --detailed-exitcodes --logdest console --debug --verbose",
             "{0}">>,
           <<puppet_args, apply_file>>)

puppet_apply(puppet_args, apply_file) ==
    Format(<<"puppet apply --detailed-exitcodes --logdest console --debug --verbose",
             "{0}", "{1}">>,
           <<puppet_args, apply_file>>)

generate_certificate(certname) == <<<<"puppetca">>, <<"generate">>, certname>>

yum_clean_metadata == <<<<"yum clean metadata">>>>

\* The exit codes a command is given in the model
ExitCodes == {0, 1, 2, 4, 6}
InstallExitCodes == {0, 1}

\* monitor_command(cmd): it returns a CommandResult that carries the status
\* code, whatever the code is; raised stands for an exception out of the
\* runner itself.
MonitorCommand(codes) ==
    {[raised |-> FALSE, status_code |-> c] : c \in codes}
        \cup {[raised |-> TRUE, status_code |-> 0]}

\* Mutant: exit code 2 (changes applied) is taken for a failure
StatusOkOnlyZero(status_code) == status_code = 0

\* result.result.status_code in [0,2]
StatusOk(status_code) == status_code \in {0, 2}

-----------------------------------------------------------------------------
(* Events: the record of what provision() did, for the ordering properties *)

\* kind: "call" and "return" of a stager, "write" (a write under a path),
\* "command" (a command handed to monitor_command), "enter" and "exit" of
\* the chroot, "rmtree".  scope and env are the chroot state and the
\* process environment at that moment.
Ev(kind, who, cmd, path, o, scope, env) ==
    [kind |-> kind, who |-> who, cmd |-> cmd, path |-> path,
     raised |-> o.raised, status_code |-> o.status_code,
     scope |-> scope, env |-> env]

NoResult == [raised |-> FALSE, status_code |-> 0]

\* Mutant: an exception inside the with block leaves without __exit__
RaisedWithoutExit(chrooted) == "done"

\* Where control goes when a statement raises: out of provision(), through
\* Chroot.__exit__ when the statement is inside the with block.
Raised(chrooted) == IF chrooted THEN "exit_chroot" ELSE "done"

-----------------------------------------------------------------------------
(* The stagers, as functions of the state they read *)

\* puppetca generate: it may leave the certificate and the key where the
\* stager looks for them, or not.
GenerateOutcomes ==
    {[raised |-> FALSE, status_code |-> 0, made |-> TRUE],
     [raised |-> FALSE, status_code |-> 1, made |-> FALSE],
     [raised |-> TRUE, status_code |-> 0, made |-> FALSE]}

WriteFile(f, abs) ==
    [q \in DOMAIN f \cup Prefixes(abs) |->
        IF q = abs THEN File ELSE IF q \in DOMAIN f THEN f[q] ELSE Dir]

\* _set_up_puppet_certs(pem_file_name): the file system, the configuration
\* bag and the events it leaves, and whether it raised.
set_up_puppet_certs_run(f, cfg, pem_file_name, chrooted, env, gen) ==
    LET certs_dir == get_config_value(cfg, "puppet_certs_dir", <<>>)
        cfg1 == get_config_value_setattr(cfg, "puppet_certs_dir", <<>>)
        private_keys_dir == get_config_value(cfg1, "puppet_private_keys_dir", <<>>)
        cfg2 == get_config_value_setattr(cfg1, "puppet_private_keys_dir", <<>>)
        mnt_certs == StrCat(Mountpoint, certs_dir)
        mnt_keys == StrCat(Mountpoint, private_keys_dir)
        who == "set_up_puppet_certs"
        W(path) == Ev("write", who, <<>>, Resolve(path, chrooted), NoResult, chrooted, env)
        f1 == MkdirP(MkdirP(f, mnt_certs, chrooted), mnt_keys, chrooted)
        e1 == <<Ev("call", who, <<>>, <<>>, NoResult, chrooted, env), W(mnt_certs), W(mnt_keys)>>
        cert == PathJoin(certs_dir, AddSuffix(pem_file_name, ".pem"))
        key == PathJoin(private_keys_dir, AddSuffix(pem_file_name, ".pem"))
        ca == PathJoin(certs_dir, <<"ca.pem">>)
        generate == ~Access(f1, cert, chrooted)
        f2 == IF generate /\ gen.made
              THEN WriteFile(WriteFile(f1, Resolve(cert, chrooted)), Resolve(key, chrooted))
              ELSE f1
        e2 == IF generate
              THEN Append(e1, Ev("command", "generate_certificate",
                                 generate_certificate(pem_file_name), <<>>, gen, chrooted, env))
              ELSE e1
        f3 == CopyFile(f2, ca, mnt_certs, chrooted)
        e3 == Append(e2, W(mnt_certs))
        f4 == CopyFile(f3, cert, mnt_certs, chrooted)
        e4 == Append(e3, W(mnt_certs))
        f5 == CopyFile(f4, key, mnt_keys, chrooted)
        e5 == Append(e4, W(mnt_keys))
        R(ff, ee, raised) == [fs |-> ff, evs |-> ee, config |-> cfg2, raised |-> raised]
    IN  IF generate /\ gen.raised THEN R(f1, e2, TRUE)
        ELSE IF CopyRaises(f2, ca, chrooted) THEN R(f2, e2, TRUE)
        ELSE IF CopyRaises(f3, cert, chrooted) THEN R(f3, e3, TRUE)
        ELSE IF CopyRaises(f4, key, chrooted) THEN R(f4, e4, TRUE)
        ELSE R(f5, Append(e5, Ev("return", who, <<>>, <<>>, NoResult, chrooted, env)), FALSE)

EtcPuppet == <<"etc", "puppet">>
EtcPuppetModules == <<"etc", "puppet", "modules">>

\* _set_up_puppet_manifests(manifests): the file system, the apply file and
\* the events it leaves, and whether it raised.
set_up_puppet_manifests_run(f, apply_file, manifests, chrooted, env) ==
    LET who == "set_up_puppet_manifests"
        W(path) == Ev("write", who, <<>>, Resolve(path, chrooted), NoResult, chrooted, env)
        e0 == <<Ev("call", who, <<>>, <<>>, NoResult, chrooted, env)>>
        ret == Ev("return", who, <<>>, <<>>, NoResult, chrooted, env)
        R(ff, ee, af, raised) ==
            [fs |-> ff, evs |-> ee, puppet_apply_file |-> af, raised |-> raised]
    IN  IF IsTarfileRaises(f, manifests, chrooted) THEN R(f, e0, apply_file, TRUE)
        ELSE IF IsTarfile(f, manifests, chrooted)
        THEN IF TarOpenGzRaises(f, manifests, chrooted) THEN R(f, e0, <<>>, TRUE)
             ELSE LET dest_dir ==
                          IF <<"modules">> \in GetNames(f, manifests, chrooted)
                          THEN PathJoin(Mountpoint, EtcPuppet)
                          ELSE PathJoin(Mountpoint, EtcPuppetModules)
                      f1 == MkdirP(f, dest_dir, chrooted)
                      f2 == ExtractAll(f1, manifests, dest_dir, chrooted)
                  IN  R(f2, e0 \o <<W(dest_dir), W(dest_dir), ret>>, <<>>, FALSE)
        ELSE LET af == PathJoin(EtcPuppetModules, Basename(manifests))
                 dest_file == PathJoin(PathJoin(Mountpoint, EtcPuppetModules), Basename(manifests))
                 f1 == MkdirP(f, PathJoin(Mountpoint, EtcPuppetModules), chrooted)
                 f2 == CopyFile(f1, manifests, dest_file, chrooted)
             IN  IF CopyRaises(f1, manifests, chrooted)
                 THEN R(f1, Append(e0, W(PathJoin(Mountpoint, EtcPuppetModules))), af, TRUE)
                 ELSE R(f2, e0 \o <<W(PathJoin(Mountpoint, EtcPuppetModules)), W(dest_file), ret>>,
                        af, FALSE)

\* _set_up_hieradata(hieradata): the file system and the events it leaves,
\* and whether it raised.
set_up_hieradata_run(f, hieradata, chrooted, env) ==
    LET who == "set_up_hieradata"
        W(path) == Ev("write", who, <<>>, Resolve(path, chrooted), NoResult, chrooted, env)
        e0 == <<Ev("call", who, <<>>, <<>>, NoResult, chrooted, env)>>
        ret == Ev("return", who, <<>>, <<>>, NoResult, chrooted, env)
        R(ff, ee, raised) == [fs |-> ff, evs |-> ee, raised |-> raised]
    IN  IF IsTarfileRaises(f, hieradata, chrooted) THEN R(f, e0, TRUE)
        ELSE IF IsTarfile(f, hieradata, chrooted)
        THEN IF TarOpenGzRaises(f, hieradata, chrooted) THEN R(f, e0, TRUE)
             ELSE LET dest_dir == PathJoin(Mountpoint, EtcPuppet)
                      f1 == MkdirP(f, dest_dir, chrooted)
                      f2 == ExtractAll(f1, hieradata, dest_dir, chrooted)
                  IN  R(f2, e0 \o <<W(dest_dir), W(dest_dir), ret>>, FALSE)
        ELSE R(f, Append(e0, ret), FALSE)

-----------------------------------------------------------------------------
(* The inputs of provision() *)

CertName == <<"web01">>
Build == <<"/", "build">>
SitePp == <<"/", "build", "site.pp">>
ModulesTgz == <<"/", "build", "modules.tgz">>
FlatTgz == <<"/", "build", "flat.tgz">>
MembersTgz == <<"/", "build", "members.tgz">>
PlainTar == <<"/", "build", "plain.tar">>
HieraTgz == <<"/", "build", "hiera.tgz">>
HieraYaml == <<"/", "build", "hiera.yaml">>
MissingTgz == <<"/", "build", "missing.tgz">>

\* context.package.arg: a certificate name (no such path), a manifest file,
\* a gzipped archive with and without a top-level modules entry, a gzipped
\* archive of the file modules/ntp.pp alone (no member for the directory), an
\* archive that is not gzipped, a directory.
PackageArgs == {CertName, SitePp, ModulesTgz, FlatTgz, MembersTgz, PlainTar, Build}

\* The build host before provision(), the certificate material apart
BaseFs ==
    (<<"/">> :> Dir) @@ (Cwd :> Dir) @@ (Mountpoint :> Dir) @@ (Build :> Dir)
    @@ (SitePp :> File)
    @@ (ModulesTgz :> TarGz({<<"modules">>, <<"modules", "ntp.pp">>}))
    @@ (FlatTgz :> TarGz({<<"ntp.pp">>}))
    @@ (MembersTgz :> TarGz({<<"modules", "ntp.pp">>}))
    @@ (PlainTar :> Tar({<<"ntp.pp">>}))
    @@ (HieraTgz :> TarGz({<<"hiera.yaml">>, <<"hieradata">>, <<"hieradata", "common.yaml">>}))
    @@ (HieraYaml :> File)

SslCerts == <<"/", "ssl", "certs">>
SslPrivateKeys == <<"/", "ssl", "private_keys">>

\* The build host with the CA certificate (has_ca) and the certificate and
\* key of the certificate name (has_pair) where the stager looks for them.
HostFs(certs_dir, private_keys_dir, has_ca, has_pair) ==
    LET ca == Resolve(PathJoin(certs_dir, <<"ca.pem">>), FALSE)
        cert == Resolve(PathJoin(certs_dir, AddSuffix(CertName, ".pem")), FALSE)
        key == Resolve(PathJoin(private_keys_dir, AddSuffix(CertName, ".pem")), FALSE)
        f1 == IF has_ca THEN WriteFile(BaseFs, ca) ELSE BaseFs
    IN  IF has_pair THEN WriteFile(WriteFile(f1, cert), key) ELSE f1

Alphabet == <<"A", "B", "C", "D", "E", "F">>
Digits == <<"1", "2", "3", "4", "5", "6">>
KeyAt(i) == <<Alphabet[i]>>
ValueAt(i) == <<Digits[i]>>

\* The spec "A=1<sep>B=2<sep>..." of n pairs
RECURSIVE RenderEnvVars(_, _)
RenderEnvVars(n, sep) ==
    IF n = 1 THEN KeyAt(1) \o <<"=">> \o ValueAt(1)
    ELSE RenderEnvVars(n - 1, sep) \o sep \o KeyAt(n) \o <<"=">> \o ValueAt(n)

Separators == {<<" ", ";", " ">>}

WellFormedEnvVars == {RenderEnvVars(n, sep) : n \in 1..MaxPairs, sep \in Separators}

\* A value that holds '=', and a spec with no key=value in it
ValueWithEquals == <<"K", "=", "a", "=", "b">>
NoKeyValue == <<"A", "B">>

Options == {"puppet_args", "puppet_env_vars", "puppet_master", "puppet_certs_dir",
            "puppet_private_keys_dir", "puppet_hieradata", "puppet_install_cmd",
            "puppet_hiera_install_cmd"}

\* An option is unset (<<>>) or set to a value v (<<v>>)
Unset == <<>>
OptionValues(name) ==
    {Unset} \cup
    {<<v>> : v \in
        CASE name = "puppet_args" -> {<<"--noop">>}
          [] name = "puppet_env_vars" -> WellFormedEnvVars \cup {ValueWithEquals, NoKeyValue}
          [] name = "puppet_master" -> {<<"puppetmaster">>}
          [] name = "puppet_certs_dir" -> {SslCerts}
          [] name = "puppet_private_keys_dir" -> {SslPrivateKeys}
          [] name = "puppet_hieradata" -> {HieraTgz, HieraYaml, MissingTgz}
          [] name = "puppet_install_cmd" -> {<<"install-puppet.sh">>}
          [] name = "puppet_hiera_install_cmd" -> {<<"install-hiera.sh">>}}

MakeConfig(choice) == [n \in {m \in Options : choice[m] # Unset} |-> choice[n][1]]

Distros == {"redhat", "debian"}

InitialEnviron == (<<"P">> :> <<"/">>) @@ (<<"A">> :> <<"0">>)

NoAttributes == [name |-> "", version |-> "", release |-> ""]

\* time.strftime("%Y%m%d%H%M")
Times == {"202611020324"}

\* The options a run in Apply mode never reads are left unset, and the build
\* host holds certificate material only for a run in Master mode; a run in
\* Master mode reads of puppet_hieradata only whether it is set.
Init ==
    \E arg \in PackageArgs, distro \in Distros, has_ca \in BOOLEAN, has_pair \in BOOLEAN,
       args \in OptionValues("puppet_args"),
       env_vars \in OptionValues("puppet_env_vars"),
       master \in OptionValues("puppet_master"),
       certs_dir \in OptionValues("puppet_certs_dir"),
       private_keys_dir \in OptionValues("puppet_private_keys_dir"),
       hieradata \in OptionValues("puppet_hieradata"),
       install_cmd \in OptionValues("puppet_install_cmd"),
       hiera_install_cmd \in OptionValues("puppet_hiera_install_cmd") :
      LET choice == [n \in Options |->
                CASE n = "puppet_args" -> args
                  [] n = "puppet_env_vars" -> env_vars
                  [] n = "puppet_master" -> master
                  [] n = "puppet_certs_dir" -> certs_dir
                  [] n = "puppet_private_keys_dir" -> private_keys_dir
                  [] n = "puppet_hieradata" -> hieradata
                  [] n = "puppet_install_cmd" -> install_cmd
                  [] n = "puppet_hiera_install_cmd" -> hiera_install_cmd]
      IN
        /\ arg # CertName =>
              /\ master = Unset
              /\ certs_dir = Unset
              /\ private_keys_dir = Unset
              /\ ~has_ca /\ ~has_pair
        /\ arg = CertName => hieradata \in {Unset, <<HieraTgz>>}
        /\ LET cfg == MakeConfig(choice)
               f == HostFs(get_config_value(cfg, "puppet_certs_dir", <<>>),
                           get_config_value(cfg, "puppet_private_keys_dir", <<>>),
                           has_ca, has_pair)
           IN  /\ config = cfg
               /\ fs = f
               /\ input = [arg |-> arg, distro |-> distro, config |-> cfg, fs |-> f,
                           environ |-> InitialEnviron, attributes |-> NoAttributes]
        /\ pc = "decide"
        /\ puppet_run_mode = "unset"
        /\ puppet_apply_file = <<"unset">>
        /\ attributes = NoAttributes
        /\ environ = InitialEnviron
        /\ in_chroot = FALSE
        /\ events = <<>>
        /\ result = [ran |-> FALSE, status_code |-> 0]
        /\ outcome = "none"

-----------------------------------------------------------------------------
(* provision(), statement by statement *)

\* Mutant: the overrides are parsed but never merged
merge_env_vars_skipped(env, spec) == [environ |-> env, raised |-> FALSE]

\* provision(), lines 117-123: the environment after the puppet_env_vars
\* option has been handled, and whether building the dict raised.
merge_env_vars_run(env, spec) ==
    IF SearchKeyValue(spec)
    THEN LET items == EnvVarItems(spec)
         IN  IF DictRaises(items)
             THEN [environ |-> env, raised |-> TRUE]
             ELSE [environ |-> EnvironUpdate(env, DictOf(items)), raised |-> FALSE]
    ELSE [environ |-> env, raised |-> FALSE]

\* Mutant: the two branches are swapped
RunModeForSwapped(f, arg, chrooted) == IF Access(f, arg, chrooted) THEN "master" ELSE "apply"

\* _decide_puppet_run_mode()
RunModeFor(f, arg, chrooted) == IF Access(f, arg, chrooted) THEN "apply" ELSE "master"

decide_puppet_run_mode ==
    /\ pc = "decide"
    /\ puppet_run_mode' = RunModeFor(fs, input.arg, in_chroot)
    /\ pc' = "pre_chroot"
    /\ UNCHANGED <<puppet_apply_file, config, attributes, environ, fs, in_chroot,
                   events, result, outcome, input>>

\* Mutant: the manifest stager runs whatever the mode
StagerForAlwaysManifests(mode) == "manifests"

\* _pre_chroot_block(): which stager the run mode selects
StagerFor(mode) == IF mode = "master" THEN "certs" ELSE "manifests"

\* Mutant: the overrides are merged before the stager is called
pre_chroot_block_merges_env ==
    /\ pc = "pre_chroot"
    /\ \E t \in Times :
          attributes' = [name |-> "", version |-> "puppet", release |-> t]
    /\ environ' = merge_env_vars_run(environ,
                                     get_config_value(config, "puppet_env_vars", <<>>)).environ
    /\ pc' = StagerFor(puppet_run_mode)
    /\ UNCHANGED <<puppet_run_mode, puppet_apply_file, config, fs, in_chroot,
                   events, result, outcome, input>>

\* _pre_chroot_block(), up to the stager: the package attributes are set
pre_chroot_block ==
    /\ pc = "pre_chroot"
    /\ \E t \in Times :
          attributes' = [name |-> "", version |-> "puppet", release |-> t]
    /\ pc' = StagerFor(puppet_run_mode)
    /\ UNCHANGED <<puppet_run_mode, puppet_apply_file, config, environ, fs, in_chroot,
                   events, result, outcome, input>>

\* Mutant: an exception out of the certificate stager is swallowed
set_up_puppet_certs_swallows ==
    /\ pc = "certs"
    /\ \E gen \in GenerateOutcomes :
          LET r == set_up_puppet_certs_run(fs, config, input.arg, in_chroot, environ, gen)
          IN  /\ fs' = r.fs
              /\ config' = r.config
              /\ events' = events \o r.evs
              /\ pc' = "env_vars"
              /\ outcome' = outcome
    /\ UNCHANGED <<puppet_run_mode, puppet_apply_file, attributes, environ, in_chroot,
                   result, input>>

set_up_puppet_certs ==
    /\ pc = "certs"
    /\ \E gen \in GenerateOutcomes :
          LET r == set_up_puppet_certs_run(fs, config, input.arg, in_chroot, environ, gen)
          IN  /\ fs' = r.fs
              /\ config' = r.config
              /\ events' = events \o r.evs
              /\ pc' = IF r.raised THEN Raised(in_chroot) ELSE "env_vars"
              /\ outcome' = IF r.raised THEN "raised" ELSE outcome
    /\ UNCHANGED <<puppet_run_mode, puppet_apply_file, attributes, environ, in_chroot,
                   result, input>>

set_up_puppet_manifests ==
    /\ pc = "manifests"
    /\ LET r == set_up_puppet_manifests_run(fs, puppet_apply_file, input.arg, in_chroot, environ)
       IN  /\ fs' = r.fs
           /\ puppet_apply_file' = r.puppet_apply_file
           /\ events' = events \o r.evs
           /\ pc' = IF r.raised THEN Raised(in_chroot) ELSE "hieradata"
           /\ outcome' = IF r.raised THEN "raised" ELSE outcome
    /\ UNCHANGED <<puppet_run_mode, config, attributes, environ, in_chroot, result, input>>

\* _pre_chroot_block(), after the manifest stager: the hieradata option
set_up_hieradata ==
    /\ pc = "hieradata"
    /\ LET puppet_hieradata == get_config_value(config, "puppet_hieradata", <<>>)
           r == IF puppet_hieradata # <<>>
                THEN set_up_hieradata_run(fs, puppet_hieradata, in_chroot, environ)
                ELSE [fs |-> fs, evs |-> <<>>, raised |-> FALSE]
       IN  /\ config' = get_config_value_setattr(config, "puppet_hieradata", <<>>)
           /\ fs' = r.fs
           /\ events' = events \o r.evs
           /\ pc' = IF r.raised THEN Raised(in_chroot) ELSE "env_vars"
           /\ outcome' = IF r.raised THEN "raised" ELSE outcome
    /\ UNCHANGED <<puppet_run_mode, puppet_apply_file, attributes, environ, in_chroot,
                   result, input>>

merge_env_vars ==
    /\ pc = "env_vars"
    /\ LET r == merge_env_vars_run(environ, get_config_value(config, "puppet_env_vars", <<>>))
       IN  /\ config' = get_config_value_setattr(config, "puppet_env_vars", <<>>)
           /\ environ' = r.environ
           /\ pc' = IF r.raised THEN Raised(in_chroot) ELSE "enter_chroot"
           /\ outcome' = IF r.raised THEN "raised" ELSE outcome
    /\ UNCHANGED <<puppet_run_mode, puppet_apply_file, attributes, fs, in_chroot, events,
                   result, input>>

\* with Chroot(self._distro._mountpoint): __enter__
chroot_enter ==
    /\ pc = "enter_chroot"
    /\ in_chroot' = TRUE
    /\ events' = Append(events, Ev("enter", "provision", <<>>, Mountpoint, NoResult, TRUE, environ))
    /\ pc' = "install_puppet"
    /\ UNCHANGED <<puppet_run_mode, puppet_apply_file, config, attributes, environ, fs,
                   result, outcome, input>>

\* The events of running cmds one after the other with the outcomes outs,
\* up to the first that raises.
RunCommands(who, cmds, outs, chrooted, env) ==
    LET stop == IF \E i \in DOMAIN cmds : outs[i].raised
                THEN CHOOSE i \in DOMAIN cmds :
                         outs[i].raised /\ \A j \in 1..(i - 1) : ~outs[j].raised
                ELSE Len(cmds)
    IN  [i \in 1..stop |-> Ev("command", who, cmds[i], <<>>, outs[i], chrooted, env)]

AnyRaised(evs) == \E i \in DOMAIN evs : evs[i].raised

\* Mutant: the package manager is run after the custom command as well
InstallPuppetCommandsThenFallback(puppet_install_cmd, distro) ==
    (IF puppet_install_cmd # <<>> THEN <<<<puppet_install_cmd>>>> ELSE <<>>)
    \o (IF distro = "redhat"
        THEN <<yum_clean_metadata, <<<<"yum --nogpgcheck -y install puppet">>>>>>
        ELSE <<<<<<"apt-get update">>>>, <<<<"apt-get -y install puppet">>>>>>)

\* _install_puppet(), lines 262-274: the commands that install the agent
InstallPuppetCommands(puppet_install_cmd, distro) ==
    IF puppet_install_cmd # <<>> THEN <<<<puppet_install_cmd>>>>
    ELSE IF distro = "redhat"
    THEN <<yum_clean_metadata, <<<<"yum --nogpgcheck -y install puppet">>>>>>
    ELSE <<<<<<"apt-get update">>>>, <<<<"apt-get -y install puppet">>>>>>

install_puppet ==
    /\ pc = "install_puppet"
    /\ LET cmds == InstallPuppetCommands(
                       get_config_value(config, "puppet_install_cmd", <<>>), input.distro)
       IN  \E outs \in [DOMAIN cmds -> MonitorCommand(InstallExitCodes)] :
              LET evs == RunCommands("install_puppet", cmds, outs, in_chroot, environ)
              IN  /\ events' = events \o evs
                  /\ pc' = IF AnyRaised(evs) THEN Raised(in_chroot) ELSE "install_hiera"
                  /\ outcome' = IF AnyRaised(evs) THEN "raised" ELSE outcome
    /\ config' = get_config_value_setattr(config, "puppet_install_cmd", <<>>)
    /\ UNCHANGED <<puppet_run_mode, puppet_apply_file, attributes, environ, fs, in_chroot,
                   result, input>>

\* _install_puppet(), lines 276-284: the command that installs Hiera
InstallHieraCommands(puppet_hieradata, puppet_hiera_install_cmd) ==
    IF puppet_hieradata = <<>> THEN <<>>
    ELSE IF puppet_hiera_install_cmd # <<>> THEN <<<<puppet_hiera_install_cmd>>>>
    ELSE <<<<<<"gem install hiera">>>>>>

install_hiera ==
    /\ pc = "install_hiera"
    /\ LET puppet_hieradata == get_config_value(config, "puppet_hieradata", <<>>)
           cfg1 == get_config_value_setattr(config, "puppet_hieradata", <<>>)
           cmds == InstallHieraCommands(
                       puppet_hieradata,
                       get_config_value(cfg1, "puppet_hiera_install_cmd", <<>>))
       IN  /\ config' = IF puppet_hieradata # <<>>
                        THEN get_config_value_setattr(cfg1, "puppet_hiera_install_cmd", <<>>)
                        ELSE cfg1
           /\ \E outs \in [DOMAIN cmds -> MonitorCommand(InstallExitCodes)] :
                 LET evs == RunCommands("install_hiera", cmds, outs, in_chroot, environ)
                 IN  /\ events' = events \o evs
                     /\ pc' = IF AnyRaised(evs) THEN Raised(in_chroot) ELSE "run_agent"
                     /\ outcome' = IF AnyRaised(evs) THEN "raised" ELSE outcome
    /\ UNCHANGED <<puppet_run_mode, puppet_apply_file, attributes, environ, fs, in_chroot,
                   result, input>>

\* provision(), lines 130-134: the agent in Master mode
run_puppet_agent ==
    /\ pc = "run_agent"
    /\ puppet_run_mode = "master"
    /\ LET puppet_args == get_config_value(config, "puppet_args", <<>>)
           cfg1 == get_config_value_setattr(config, "puppet_args", <<>>)
           puppet_master == get_config_value(cfg1, "puppet_master", Hostname)
           cmd == puppet_agent(puppet_args, input.arg, puppet_master)
       IN  /\ config' = get_config_value_setattr(cfg1, "puppet_master", Hostname)
           /\ \E o \in MonitorCommand(ExitCodes) :
                 /\ events' = Append(events, Ev("command", "puppet_agent", cmd, <<>>, o,
                                                in_chroot, environ))
                 /\ result' = IF o.raised THEN result
                              ELSE [ran |-> TRUE, status_code |-> o.status_code]
                 /\ pc' = IF o.raised THEN Raised(in_chroot) ELSE "rm_certs"
                 /\ outcome' = IF o.raised THEN "raised" ELSE outcome
    /\ UNCHANGED <<puppet_run_mode, puppet_apply_file, attributes, environ, fs, in_chroot,
                   input>>

\* provision(), lines 130 and 136-141: the agent in Apply mode
run_puppet_apply ==
    /\ pc = "run_agent"
    /\ puppet_run_mode = "apply"
    /\ LET puppet_args == get_config_value(config, "puppet_args", <<>>)
           cmd == puppet_apply(puppet_args, puppet_apply_file)
       IN  /\ config' = get_config_value_setattr(config, "puppet_args", <<>>)
           /\ \E o \in MonitorCommand(ExitCodes) :
                 /\ events' = Append(events, Ev("command", "puppet_apply", cmd, <<>>, o,
                                                in_chroot, environ))
                 /\ result' = IF o.raised THEN result
                              ELSE [ran |-> TRUE, status_code |-> o.status_code]
                 /\ pc' = IF o.raised THEN Raised(in_chroot) ELSE "status_check"
                 /\ outcome' = IF o.raised THEN "raised" ELSE outcome
    /\ UNCHANGED <<puppet_run_mode, puppet_apply_file, attributes, environ, fs, in_chroot,
                   input>>

\* Mutant: the directories are never removed
rm_puppet_certs_dirs_skipped(f, cfg, chrooted, env) ==
    [fs |-> f, evs |-> <<>>, config |-> cfg, raised |-> FALSE]

\* _rm_puppet_certs_dirs(): the file system and the events it leaves, and
\* whether it raised.
rm_puppet_certs_dirs_run(f, cfg, chrooted, env) ==
    LET certs_dir == get_config_value(cfg, "puppet_certs_dir", <<>>)
        cfg1 == get_config_value_setattr(cfg, "puppet_certs_dir", <<>>)
        private_keys_dir == get_config_value(cfg1, "puppet_private_keys_dir", <<>>)
        cfg2 == get_config_value_setattr(cfg1, "puppet_private_keys_dir", <<>>)
        E(path) == Ev("rmtree", "rm_puppet_certs_dirs", <<>>, Resolve(path, chrooted),
                      NoResult, chrooted, env)
        f1 == Rmtree(f, certs_dir, chrooted)
        f2 == Rmtree(f1, private_keys_dir, chrooted)
    IN  IF RmtreeRaises(f, certs_dir, chrooted)
        THEN [fs |-> f, evs |-> <<>>, config |-> cfg1, raised |-> TRUE]
        ELSE IF RmtreeRaises(f1, private_keys_dir, chrooted)
        THEN [fs |-> f1, evs |-> <<E(certs_dir)>>, config |-> cfg2, raised |-> TRUE]
        ELSE [fs |-> f2, evs |-> <<E(certs_dir), E(private_keys_dir)>>, config |-> cfg2,
              raised |-> FALSE]

\* Mutant: the call is made after the with block has been left
rm_puppet_certs_dirs_after_exit ==
    /\ pc = "rm_certs"
    /\ LET r == rm_puppet_certs_dirs_run(fs, config, FALSE, environ)
       IN  /\ fs' = r.fs
           /\ config' = r.config
           /\ events' = Append(events, Ev("exit", "provision", <<>>, Mountpoint, NoResult,
                                          FALSE, environ)) \o r.evs
           /\ pc' = "done"
           /\ outcome' = IF r.raised THEN "raised"
                         ELSE IF StatusOk(result.status_code) THEN "True" ELSE "False"
    /\ in_chroot' = FALSE
    /\ UNCHANGED <<puppet_run_mode, puppet_apply_file, attributes, environ, result, input>>

\* provision(), line 135
rm_puppet_certs_dirs ==
    /\ pc = "rm_certs"
    /\ LET r == rm_puppet_certs_dirs_run(fs, config, in_chroot, environ)
       IN  /\ fs' = r.fs
           /\ config' = r.config
           /\ events' = events \o r.evs
           /\ pc' = IF r.raised THEN Raised(in_chroot) ELSE "status_check"
           /\ outcome' = IF r.raised THEN "raised" ELSE outcome
    /\ UNCHANGED <<puppet_run_mode, puppet_apply_file, attributes, environ, in_chroot,
                   result, input>>

\* Mutant: return False leaves without __exit__
status_check_return_skips_exit ==
    /\ pc = "status_check"
    /\ outcome' = IF ~StatusOk(result.status_code) THEN "False" ELSE "True"
    /\ pc' = IF ~StatusOk(result.status_code) THEN "done" ELSE "exit_chroot"
    /\ UNCHANGED <<puppet_run_mode, puppet_apply_file, config, attributes, environ, fs,
                   in_chroot, events, result, input>>

\* provision(), lines 148-151 and 156: return False inside the with block,
\* or leave the block and return True
status_check ==
    /\ pc = "status_check"
    /\ outcome' = IF ~StatusOk(result.status_code) THEN "False" ELSE "True"
    /\ pc' = "exit_chroot"
    /\ UNCHANGED <<puppet_run_mode, puppet_apply_file, config, attributes, environ, fs,
                   in_chroot, events, result, input>>

\* with Chroot(self._distro._mountpoint): __exit__
chroot_exit ==
    /\ pc = "exit_chroot"
    /\ in_chroot' = FALSE
    /\ events' = Append(events, Ev("exit", "provision", <<>>, Mountpoint, NoResult, FALSE, environ))
    /\ pc' = "done"
    /\ UNCHANGED <<puppet_run_mode, puppet_apply_file, config, attributes, environ, fs,
                   result, outcome, input>>

Next ==
    \/ decide_puppet_run_mode
    \/ pre_chroot_block
    \/ set_up_puppet_certs
    \/ set_up_puppet_manifests
    \/ set_up_hieradata
    \/ merge_env_vars
    \/ chroot_enter
    \/ install_puppet
    \/ install_hiera
    \/ run_puppet_agent
    \/ run_puppet_apply
    \/ rm_puppet_certs_dirs
    \/ status_check
    \/ chroot_exit

Spec == Init /\ [][Next]_vars

-----------------------------------------------------------------------------
(* provision() over the values of the puppet_env_vars option *)

EnvKeys == {<<"A">>, <<"B">>}
EnvValues == {<<"1">>, <<"2">>}

\* A ';' with at most one whitespace character on each side
EnvSeparators == {<<";">>, <<" ", ";">>, <<";", " ">>, <<" ", ";", " ">>}

\* The sequences of one to MaxPairs key/value pairs
EnvPairSeqs == UNION {[1..n -> [k : EnvKeys, v : EnvValues]] : n \in 1..MaxPairs}

\* The spec "k1=v1<sep>k2=v2<sep>..." of the pairs
RECURSIVE RenderPairs(_, _)
RenderPairs(pairs, sep) ==
    IF Len(pairs) = 1 THEN pairs[1].k \o <<"=">> \o pairs[1].v
    ELSE RenderPairs(SubSeq(pairs, 1, Len(pairs) - 1), sep)
         \o sep \o pairs[Len(pairs)].k \o <<"=">> \o pairs[Len(pairs)].v

KeyValueSpecs == {RenderPairs(pairs, sep) : pairs \in EnvPairSeqs, sep \in EnvSeparators}

\* Specs in which no '=' has a non-space character on each side
NoPatternSpecs ==
    {<<"A", "B">>, <<"A", ";", "B">>, <<"=">>, <<"A", "=">>, <<"=", "1">>,
     <<"A", " ", "=", " ", "1">>, <<"A", "=", " ", "1">>, <<"A", " ", "=", "1">>}

\* provision() is called in either mode with no option set but puppet_env_vars
InitEnv ==
    \E arg \in {CertName, SitePp}, distro \in Distros, has_ca \in BOOLEAN,
       has_pair \in BOOLEAN,
       env_vars \in {Unset} \cup {<<v>> : v \in KeyValueSpecs \cup NoPatternSpecs} :
        /\ arg # CertName => ~has_ca /\ ~has_pair
        /\ distro = "redhat"
        /\ LET cfg == MakeConfig([n \in Options |->
                                     IF n = "puppet_env_vars" THEN env_vars ELSE Unset])
               f == HostFs(<<>>, <<>>, has_ca, has_pair)
           IN  /\ config = cfg
               /\ fs = f
               /\ input = [arg |-> arg, distro |-> distro, config |-> cfg, fs |-> f,
                           environ |-> InitialEnviron, attributes |-> NoAttributes]
        /\ pc = "decide"
        /\ puppet_run_mode = "unset"
        /\ puppet_apply_file = <<"unset">>
        /\ attributes = NoAttributes
        /\ environ = InitialEnviron
        /\ in_chroot = FALSE
        /\ events = <<>>
        /\ result = [ran |-> FALSE, status_code |-> 0]
        /\ outcome = "none"

SpecEnv == InitEnv /\ [][Next]_vars

-----------------------------------------------------------------------------
(* Vocabulary of the properties *)

IsInstall(e) == e.kind = "command" /\ e.who \in {"install_puppet", "install_hiera"}
IsAgent(e) == e.kind = "command" /\ e.who \in {"puppet_agent", "puppet_apply"}
IsStager(e) == e.who \in {"set_up_puppet_certs", "set_up_puppet_manifests"}
IsStagingWrite(e) ==
    /\ e.kind = "write"
    /\ e.who \in {"set_up_puppet_certs", "set_up_puppet_manifests", "set_up_hieradata"}

Count(kind) == Cardinality({i \in DOMAIN events : events[i].kind = kind})

Returned == pc = "done" /\ outcome \in {"True", "False"}

Contains(cmd, piece) == \E k \in DOMAIN cmd : cmd[k] = piece

\* The option as provision() was called with it; <<>> when it was not set
Configured(name) == get_config_value(input.config, name, <<>>)

\* Where the certificate stager puts the certificates and the keys
StagedCertsDir == StrCat(Mountpoint, Configured("puppet_certs_dir"))
StagedPrivateKeysDir == StrCat(Mountpoint, Configured("puppet_private_keys_dir"))

-----------------------------------------------------------------------------
(* C1 *)

\* C1: when the agent command has run and provision() returns, it returns
\* True if and only if the agent's exit code is 0 or 2, in either mode.
C1_ExitCodeDecidesResult ==
    \A i \in DOMAIN events :
        (IsAgent(events[i]) /\ ~events[i].raised /\ pc = "done" /\ outcome # "raised")
            => /\ outcome \in {"True", "False"}
               /\ outcome = "True" <=> events[i].status_code \in {0, 2}

C1_Witness ==
    /\ pc = "done" /\ puppet_run_mode = "master" /\ outcome = "True"
    /\ \E i \in DOMAIN events : IsAgent(events[i]) /\ events[i].status_code = 2

(* C2 *)

\* C2: after an install command has exited non-zero, no agent command is
\* executed and provision() does not return True.
C2_InstallFailureIsFatal ==
    \A i \in DOMAIN events :
        (IsInstall(events[i]) /\ ~events[i].raised /\ events[i].status_code # 0)
            => /\ \A j \in DOMAIN events : j > i => ~IsAgent(events[j])
               /\ outcome # "True"

(* C3 *)

\* C3, as claimed: whatever stage fails, the scope has been released exactly
\* once when provision() is over.
C3_ReleasedExactlyOnce == pc = "done" => Count("exit") = 1

\* C3, amended: the scope is entered at most once and released exactly as
\* often as it was entered when provision() is over: once when provision()
\* got as far as the with block, whatever failed inside, and never when
\* staging or the environment merge raised before it.
C3_ReleasedOncePerEntry ==
    /\ Count("exit") <= Count("enter")
    /\ Count("enter") <= 1
    /\ pc = "done" => Count("exit") = Count("enter")
    /\ (pc = "done" /\ Count("enter") = 0)
          => /\ outcome = "raised"
             /\ \A i \in DOMAIN events : ~IsInstall(events[i]) /\ ~IsAgent(events[i])

C3_Witness ==
    /\ pc = "done" /\ outcome = "raised"
    /\ Count("enter") = 1 /\ Count("exit") = 1
    /\ \E i \in DOMAIN events : IsInstall(events[i]) /\ events[i].raised

(* C4 *)

C5_ScopeContainsInstallAndAgent ==
    /\ pc = "done" => (~in_chroot /\ Count("exit") = Count("enter"))
    /\ in_chroot <=> Count("enter") > Count("exit")
    /\ \A i \in DOMAIN events :
          /\ (IsInstall(events[i]) \/ IsAgent(events[i])) => events[i].scope
          /\ IsStagingWrite(events[i]) => ~events[i].scope

C5_Witness ==
    /\ pc = "done" /\ outcome = "False" /\ ~in_chroot
    /\ \E i, j, k \in DOMAIN events :
          /\ IsStagingWrite(events[i]) /\ events[i].who = "set_up_hieradata"
          /\ IsInstall(events[j])
          /\ IsAgent(events[k])

(* C6 *)

\* C6: at most one stager is ever called, the certificate stager if and only
\* if the mode is Master and the manifest stager if and only if it is Apply;
\* one has been called once staging is past; and it has returned before the
\* scope is entered and before any install or agent command.
C6_OneStagerBeforeScope ==
    LET calls == {i \in DOMAIN events : events[i].kind = "call" /\ IsStager(events[i])}
    IN  /\ Cardinality(calls) <= 1
        /\ \A i \in calls :
              /\ events[i].who = "set_up_puppet_certs" <=> puppet_run_mode = "master"
              /\ events[i].who = "set_up_puppet_manifests" <=> puppet_run_mode = "apply"
        /\ pc \notin {"decide", "pre_chroot", "certs", "manifests"} => Cardinality(calls) = 1
        /\ \A j \in DOMAIN events :
              (events[j].kind = "enter" \/ IsInstall(events[j]) \/ IsAgent(events[j]))
                  => \E i \in 1..(j - 1) : events[i].kind = "return" /\ IsStager(events[i])

C6_Witness ==
    /\ pc = "done" /\ puppet_run_mode = "apply"
    /\ \E i, j \in DOMAIN events :
          /\ i < j
          /\ events[i].kind = "return" /\ events[i].who = "set_up_puppet_manifests"
          /\ IsAgent(events[j])

(* C7 *)

\* Whether the package argument names an existing path on the build host
ArgExists == Resolve(input.arg, FALSE) \in DOMAIN input.fs

\* C7: the mode is Apply if the package argument names an existing path and
\* Master otherwise; the decision is the first thing provision() does, it
\* cannot fail, and the mode never changes afterwards.
C7_RunModeDecidedOnce ==
    /\ [](pc = "decide" => (puppet_run_mode = "unset" /\ events = <<>>))
    /\ [](pc # "decide" => puppet_run_mode = IF ArgExists THEN "apply" ELSE "master")
    /\ [][pc = "decide" => (pc' = "pre_chroot" /\ outcome' = "none")]_vars
    /\ [][puppet_run_mode # "unset" => puppet_run_mode' = puppet_run_mode]_vars

C7_Witness ==
    /\ pc = "done" /\ outcome = "True"
    /\ ArgExists /\ puppet_run_mode = "apply"

(* C8 *)

\* C8: the agent command of Master mode carries the certificate name, the
\* master host (the configured one, or the local hostname) and the
\* configured extra arguments.
C8_MasterCommandCarriesArgs ==
    \A i \in DOMAIN events :
        events[i].who = "puppet_agent"
            => /\ Contains(events[i].cmd, input.arg)
               /\ Contains(events[i].cmd,
                           IF Configured("puppet_master") # <<>>
                           THEN Configured("puppet_master") ELSE Hostname)
               /\ Configured("puppet_args") # <<>>
                     => Contains(events[i].cmd, Configured("puppet_args"))

(* C9 *)

\* C9: when provision() returns True or False in Master mode, the staged
\* certificate and private-key directories are gone from the mount point; in
\* Apply mode nothing is ever removed.
C9_CertDirsRemovedOnReturn ==
    /\ (Returned /\ puppet_run_mode = "master")
          => \A q \in DOMAIN fs :
                ~IsPrefix(StagedCertsDir, q) /\ ~IsPrefix(StagedPrivateKeysDir, q)
    /\ puppet_run_mode = "apply" => Count("rmtree") = 0

C9_Witness ==
    /\ Returned /\ outcome = "False" /\ puppet_run_mode = "master"
    /\ \E i \in DOMAIN events : IsStagingWrite(events[i]) /\ events[i].path = StagedCertsDir
    /\ StagedCertsDir \notin DOMAIN fs

(* C10 *)

\* C10: with a well-formed puppet_env_vars, the environment at the entry of
\* the scope and at every install and agent command holds every configured
\* pair.
C10_EnvMergedBeforeScope ==
    \A n \in 1..MaxPairs, sep \in Separators :
        Configured("puppet_env_vars") = RenderEnvVars(n, sep)
            => \A i \in DOMAIN events :
                  (events[i].kind = "enter" \/ IsInstall(events[i]) \/ IsAgent(events[i]))
                      => \A k \in 1..n :
                            /\ KeyAt(k) \in DOMAIN events[i].env
                            /\ events[i].env[KeyAt(k)] = ValueAt(k)

C10_Witness ==
    /\ pc = "done" /\ outcome = "True"
    /\ Configured("puppet_env_vars") = RenderEnvVars(MaxPairs, <<" ", ";", " ">>)
    /\ \E i \in DOMAIN events : IsAgent(events[i]) /\ KeyAt(MaxPairs) \in DOMAIN events[i].env

(* C11 *)

IsStaging(e) ==
    e.who \in {"set_up_puppet_certs", "generate_certificate", "set_up_puppet_manifests",
               "set_up_hieradata"}

\* C11, as claimed: with a well-formed puppet_env_vars, the stagers and the
\* certificate-generation command run with every configured pair in the
\* environment.
C11_EnvMergedBeforeStaging ==
    \A n \in 1..MaxPairs, sep \in Separators :
        Configured("puppet_env_vars") = RenderEnvVars(n, sep)
            => \A i \in DOMAIN events :
                  IsStaging(events[i])
                      => \A k \in 1..n :
                            /\ KeyAt(k) \in DOMAIN events[i].env
                            /\ events[i].env[KeyAt(k)] = ValueAt(k)

\* C11, amended: the overrides are merged after staging and before the scope
\* is entered: the stagers and the certificate-generation command run with
\* the environment provision() was called with, and the scope is entered
\* with every configured pair in the environment.
C11_EnvMergedAfterStaging ==
    /\ \A i \in DOMAIN events : IsStaging(events[i]) => events[i].env = input.environ
    /\ \A n \in 1..MaxPairs, sep \in Separators :
          Configured("puppet_env_vars") = RenderEnvVars(n, sep)
              => \A i \in DOMAIN events :
                    events[i].kind = "enter"
                        => \A k \in 1..n :
                              /\ KeyAt(k) \in DOMAIN events[i].env
                              /\ events[i].env[KeyAt(k)] = ValueAt(k)

C11_Witness ==
    /\ Configured("puppet_env_vars") = RenderEnvVars(MaxPairs, <<" ", ";", " ">>)
    /\ environ # input.environ
    /\ \E i, j \in DOMAIN events :
          /\ events[i].who = "generate_certificate" /\ events[i].env = input.environ
          /\ events[j].kind = "enter"

(* C12 *)

\* The environment overridden with the pairs, one after the other
RECURSIVE Overridden(_, _)
Overridden(env, pairs) ==
    IF pairs = <<>> THEN env
    ELSE LET before == Overridden(env, SubSeq(pairs, 1, Len(pairs) - 1))
             p == pairs[Len(pairs)]
         IN  [key \in DOMAIN before \cup {p.k} |-> IF key = p.k THEN p.v ELSE before[key]]

\* No '=' of the spec has a non-space character on each side
HasNoKeyValuePattern(s) ==
    \A i \in DOMAIN s :
        s[i] = "=" => (i = 1 \/ i = Len(s) \/ s[i - 1] = " " \/ s[i + 1] = " ")

C12_MergeStep ==
    /\ \A pairs \in EnvPairSeqs, sep \in EnvSeparators :
          Configured("puppet_env_vars") = RenderPairs(pairs, sep)
              => /\ pc' = "enter_chroot"
                 /\ environ' = Overridden(environ, pairs)
    /\ HasNoKeyValuePattern(Configured("puppet_env_vars"))
          => /\ pc' = "enter_chroot"
             /\ environ' = environ

\* C12: for a spec of key=value segments separated by ';' with at most one
\* whitespace character on each side, the merge step leaves the environment
\* equal to the one before it overridden with exactly those pairs, and for a
\* spec with no key=value pattern it leaves the environment unchanged; in
\* both cases provision() goes on to enter the scope.
C12_MergeIsExactOverride == [][pc = "env_vars" => C12_MergeStep]_vars

C12_Witness ==
    /\ pc = "enter_chroot"
    /\ Configured("puppet_env_vars") = <<"A", "=", "2", " ", ";", "B", "=", "1">>
    /\ environ = (<<"P">> :> <<"/">>) @@ (<<"A">> :> <<"2">>) @@ (<<"B">> :> <<"1">>)
    /\ input.environ = (<<"P">> :> <<"/">>) @@ (<<"A">> :> <<"0">>)

(* C13 *)

IsInstallPuppet(e) == e.kind = "command" /\ e.who = "install_puppet"

\* The agent install commands run so far, in order
InstallPuppetRan ==
    LET evs == SelectSeq(events, IsInstallPuppet)
    IN  [i \in DOMAIN evs |-> evs[i].cmd]

YumFallback == <<<<<<"yum clean metadata">>>>, <<<<"yum --nogpgcheck -y install puppet">>>>>>
AptFallback == <<<<<<"apt-get update">>>>, <<<<"apt-get -y install puppet">>>>>>

Commands(cmds) == {cmds[i] : i \in DOMAIN cmds}
CommandsRun == {events[i].cmd : i \in {j \in DOMAIN events : events[j].kind = "command"}}

\* C13: with a custom agent install command configured, that command is the
\* only agent install command run and no package-manager command is run; with
\* none configured, the commands run are the yum sequence when the
\* distribution is redhat and the apt-get sequence otherwise (up to the
\* command the runner failed on, if it did), and none of the other family.
C13_InstallCommandChoice ==
    LET custom == Configured("puppet_install_cmd")
        expected == IF input.distro = "redhat" THEN YumFallback ELSE AptFallback
        other == IF input.distro = "redhat" THEN AptFallback ELSE YumFallback
        ran == InstallPuppetRan
        raised == \E i \in DOMAIN events : IsInstallPuppet(events[i]) /\ events[i].raised
    IN  /\ custom # <<>>
            => /\ ran \in {<<>>, <<<<custom>>>>}
               /\ CommandsRun \cap (Commands(YumFallback) \cup Commands(AptFallback)) = {}
        /\ custom = <<>>
            => /\ Len(ran) <= Len(expected)
               /\ \A i \in DOMAIN ran : ran[i] = expected[i]
               /\ (ran # <<>> /\ ~raised) => ran = expected
               /\ CommandsRun \cap Commands(other) = {}
        /\ pc \in {"install_hiera", "run_agent", "rm_certs", "status_check"} => ran # <<>>

C13_Witness ==
    /\ Returned
    /\ Configured("puppet_install_cmd") = <<"install-puppet.sh">>
    /\ InstallPuppetRan = <<<<<<"install-puppet.sh">>>>>>
    /\ input.distro = "redhat"
    /\ puppet_run_mode = "master"

(* C14 *)

ManifestsReturned ==
    \E i \in DOMAIN events :
        events[i].kind = "return" /\ events[i].who = "set_up_puppet_manifests"

ManifestsCalled ==
    \E i \in DOMAIN events :
        events[i].kind = "call" /\ events[i].who = "set_up_puppet_manifests"

ArgType == IF ArgExists THEN input.fs[Resolve(input.arg, FALSE)].type ELSE "none"

\* The manifest path handed to the Apply-mode command is p in every such command
ApplyCommandsCarry(p) ==
    \A i \in DOMAIN events :
        (events[i].kind = "command" /\ events[i].who = "puppet_apply")
            => /\ Len(events[i].cmd) = 3
               /\ events[i].cmd[3] = p

\* C14: once the manifest stager has returned for a single-file input with
\* base name b, the file is at {mount}/etc/puppet/modules/b, the recorded
\* apply file is exactly etc/puppet/modules/b and that path is the one in the
\* Apply-mode command; for an archive input the recorded apply file is empty
\* and the Apply-mode command carries no manifest path.
C14_ApplyFileRecorded ==
    LET b == input.arg[Len(input.arg)]
    IN  /\ (ArgType = "file" /\ ManifestsReturned)
            => /\ <<"/", "mnt", "etc", "puppet", "modules", b>> \in DOMAIN fs
               /\ fs[<<"/", "mnt", "etc", "puppet", "modules", b>>].type = "file"
               /\ puppet_apply_file = <<"etc", "puppet", "modules", b>>
               /\ ApplyCommandsCarry(<<"etc", "puppet", "modules", b>>)
        /\ (ArgType = "tar" /\ ManifestsCalled)
            => /\ puppet_apply_file = <<>>
               /\ ApplyCommandsCarry(<<>>)

C14_Witness ==
    /\ Returned
    /\ input.arg = SitePp
    /\ puppet_apply_file = <<"etc", "puppet", "modules", "site.pp">>
    /\ \E i \in DOMAIN events :
          /\ events[i].who = "puppet_apply"
          /\ events[i].cmd[3] = <<"etc", "puppet", "modules", "site.pp">>

(* C15 *)

\* The first components of the archive's member names
TopLevelNames == {n[1] : n \in input.fs[Resolve(input.arg, FALSE)].names}

\* C15, as claimed: once the manifest stager has returned for an archive, the
\* archive has been extracted into {mount}/etc/puppet if its top-level names
\* include 'modules' and into {mount}/etc/puppet/modules otherwise: every
\* member is under that target, and the stager has written there and nowhere
\* else.
C15_ExtractionTarget ==
    (ArgType = "tar" /\ pc = "hieradata")
        => LET target == IF "modules" \in TopLevelNames
                         THEN <<"/", "mnt", "etc", "puppet">>
                         ELSE <<"/", "mnt", "etc", "puppet", "modules">>
           IN  /\ \A n \in input.fs[Resolve(input.arg, FALSE)].names :
                     target \o n \in DOMAIN fs
               /\ \A i \in DOMAIN events :
                     (events[i].kind = "write" /\ events[i].who = "set_up_puppet_manifests")
                         => events[i].path = target

(* C16 *)

\* Every stager that was called has returned, and provision() is past the
\* handling of puppet_env_vars
PastEnvMerge ==
    /\ Count("call") >= 1
    /\ Count("call") = Count("return")
    /\ pc \notin {"hieradata", "env_vars"}

\* C16, as claimed: a segment is split once on '=', so with the spec K=a=b
\* provision() gets past the merge without failing, with K set to a=b in
\* the environment.
C16_SegmentSplitOnce ==
    (Configured("puppet_env_vars") = <<"K", "=", "a", "=", "b">> /\ PastEnvMerge)
        => /\ Count("enter") >= 1
           /\ <<"K">> \in DOMAIN environ
           /\ environ[<<"K">>] = <<"a", "=", "b">>

(* C17 *)

\* A stager was called and did not return
StagerRaised ==
    \E who \in {"set_up_puppet_certs", "set_up_puppet_manifests", "set_up_hieradata"} :
        /\ \E i \in DOMAIN events : events[i].kind = "call" /\ events[i].who = who
        /\ ~\E i \in DOMAIN events : events[i].kind = "return" /\ events[i].who = who

\* The certificate stager is over and one of its sources is not on the build host
CertSourceMissing ==
    LET ca == Resolve(PathJoin(Configured("puppet_certs_dir"), <<"ca.pem">>), FALSE)
        cert == Resolve(PathJoin(Configured("puppet_certs_dir"), AddSuffix(input.arg, ".pem")),
                        FALSE)
        key == Resolve(PathJoin(Configured("puppet_private_keys_dir"),
                                AddSuffix(input.arg, ".pem")), FALSE)
    IN  /\ puppet_run_mode = "master"
        /\ pc \notin {"decide", "pre_chroot", "certs"}
        /\ {ca, cert, key} \ DOMAIN fs # {}

\* The manifest stager is over and its input could not be copied or extracted
ManifestsUnusable ==
    /\ puppet_run_mode = "apply"
    /\ pc \notin {"decide", "pre_chroot", "manifests"}
    /\ \/ ArgType = "dir"
       \/ ArgType = "tar" /\ ~input.fs[Resolve(input.arg, FALSE)].gz

Aborted ==
    /\ pc = "done"
    /\ outcome = "raised"
    /\ Count("enter") = 0
    /\ \A i \in DOMAIN events : ~IsInstall(events[i]) /\ ~IsAgent(events[i])

\* C17: when a stager fails (a source certificate, CA certificate or key is
\* missing, a copy fails, a manifest archive cannot be extracted),
\* provision() ends with the exception: the scope is never entered, no
\* install command and no agent command is run, and it does not return true.
C17_StagingFailureIsFatal ==
    (StagerRaised \/ CertSourceMissing \/ ManifestsUnusable) => Aborted

C17_Witness ==
    /\ StagerRaised
    /\ CertSourceMissing
    /\ Aborted
    /\ \E i \in DOMAIN events : events[i].who = "generate_certificate"

(* C18 *)

\* C18, as claimed: when provision() is over, the package attributes and
\* every option of the configuration bag are as they were when it was called.
C18_ContextReadOnly ==
    pc = "done" => (config = input.config /\ attributes = input.attributes)

\* C18, amended: provision() writes to the context in two places only.  The
\* package attributes are overwritten, once the mode is decided, with name
\* '', version 'puppet' and the build time as release.  An option that holds
\* a non-empty value keeps it; an option that is unset or empty can only
\* become its default, the empty string or, for puppet_master, the build
\* host's name.
C18_ContextWrites ==
    /\ \A n \in DOMAIN input.config :
          input.config[n] # <<>> => (n \in DOMAIN config /\ config[n] = input.config[n])
    /\ \A n \in DOMAIN config :
          (n \notin DOMAIN input.config \/ input.config[n] = <<>>)
              => config[n] = IF n = "puppet_master" THEN <<"buildhost">> ELSE <<>>
    /\ pc \in {"decide", "pre_chroot"} => attributes = input.attributes
    /\ pc \notin {"decide", "pre_chroot"}
          => /\ attributes.name = ""
             /\ attributes.version = "puppet"
             /\ attributes.release \in Times

C18_Witness ==
    /\ Returned
    /\ attributes # input.attributes
    /\ "puppet_args" \in DOMAIN input.config
    /\ "puppet_master" \notin DOMAIN input.config
    /\ "puppet_master" \in DOMAIN config
    /\ config["puppet_args"] = input.config["puppet_args"]

(* C19 *)

CertsReturned ==
    \E i \in DOMAIN events : events[i].kind = "return" /\ events[i].who = "set_up_puppet_certs"

\* Where the CA certificate, the host certificate and the host key are on
\* the build host
HostCertSources ==
    {Resolve(PathJoin(Configured("puppet_certs_dir"), <<"ca.pem">>), FALSE),
     Resolve(PathJoin(Configured("puppet_certs_dir"), AddSuffix(input.arg, ".pem")), FALSE),
     Resolve(PathJoin(Configured("puppet_private_keys_dir"), AddSuffix(input.arg, ".pem")),
             FALSE)}

\* C19: in Master mode nothing that was on the build host when provision()
\* was called is ever removed or changed; once the certificate stager has
\* returned, the CA certificate, the host certificate and the host key are
\* files at their build-host locations and stay there through the removal
\* step; and the removal step removes directories below the mount point only.
C19_CertsCopiedNotMoved ==
    puppet_run_mode = "master"
        => /\ \A p \in DOMAIN input.fs : p \in DOMAIN fs /\ fs[p] = input.fs[p]
           /\ CertsReturned
                 => \A p \in HostCertSources : p \in DOMAIN fs /\ fs[p].type = "file"
           /\ \A i \in DOMAIN events :
                 events[i].kind = "rmtree"
                     => /\ IsPrefix(Mountpoint, events[i].path)
                        /\ events[i].path # Mountpoint
                        /\ events[i].path \notin DOMAIN fs

C19_Witness ==
    /\ Returned
    /\ puppet_run_mode = "master"
    /\ Count("rmtree") = 2
    /\ \A p \in HostCertSources : p \in DOMAIN input.fs /\ p \in DOMAIN fs
    /\ <<"/", "mnt", "ssl", "certs">> \notin DOMAIN fs

(* C20 *)

\* The configured data path is not a recognized archive: it names nothing,
\* or something that is not a tar archive
DataPathUnrecognized ==
    /\ Configured("puppet_hieradata") # <<>>
    /\ \/ Resolve(Configured("puppet_hieradata"), FALSE) \notin DOMAIN input.fs
       \/ input.fs[Resolve(Configured("puppet_hieradata"), FALSE)].type # "tar"

HieradataRaised ==
    /\ \E i \in DOMAIN events : events[i].kind = "call" /\ events[i].who = "set_up_hieradata"
    /\ ~\E i \in DOMAIN events :
           events[i].kind = "return" /\ events[i].who = "set_up_hieradata"

\* C20, as claimed: in Apply mode, a configured data path that is not a
\* recognized archive does not make provision() fail: the data stager
\* returns without writing anything, and provision() goes on.
C20_UnrecognizedDataPathSkipped ==
    (puppet_run_mode = "apply" /\ DataPathUnrecognized)
        => /\ ~HieradataRaised
           /\ \A i \in DOMAIN events :
                 ~(events[i].kind = "write" /\ events[i].who = "set_up_hieradata")

====
